---- MODULE Spec2Model ----
(***************************************************************************)
(* Model of the TIBC pipeline: etl_tibc.py (extract_data, transform_data,  *)
(* load_data and the __main__ block) and visualizacion_tibc.py (the        *)
(* module-level script that reads the table and renders three charts).     *)
(*                                                                         *)
(* A table (DataFrame) is a sequence of rows; a row is a record of cells;  *)
(* a cell is a record [t, s, a, b, c]: t is the kind ("str", "nan",        *)
(* "date", "num"), s the characters of a text, and a, b, c the numbers of  *)
(* a date (year, month, day) or of a decimal (mantissa, decimal places).   *)
(* NaN, NaT and None are the one cell Null.                                *)
(***************************************************************************)
EXTENDS Integers, Sequences, FiniteSets, TLC

VARIABLES
    script,          \* the script the running process executes
    pc,              \* where that process is
    http,            \* the response to the GET of extract_data
    df_raw,          \* __main__'s df_raw
    df_transformed,  \* __main__'s df_transformed
    conn,            \* the process's storage connection: none, open or closed
    db,              \* the database file and its table
    calls,           \* the stages __main__ has called, in order
    opened,          \* the connections the process has opened
    escaped,         \* the exception no handler caught, or "none"
    exitCode,        \* the exit status, -1 while the process runs
    vdf,             \* the visualization script's df
    charts,          \* the chart files the process has written
    wrote            \* the outcome of to_sql in this process: none, failed, or
                     \* what a successful write did to the table: created
                     \* (no rows before), rewrote (the same rows before) or
                     \* replaced (other rows before)

vars == <<script, pc, http, df_raw, df_transformed, conn, db, calls, opened,
          escaped, exitCode, vdf, charts, wrote>>

(***************************************************************************)
(* Bounds of the model.                                                    *)
(***************************************************************************)
\* longest table handed to transform_data on its own
MaxRows == 3
\* longest rate text handed to transform_data on its own
MaxLen == 3
\* longest table a CSV body parses to in a run of the scripts
MaxBodyRows == 2

(***************************************************************************)
(* Cells.                                                                  *)
(***************************************************************************)
Str(s) == [t |-> "str", s |-> s, a |-> 0, b |-> 0, c |-> 0]
Null == [t |-> "nan", s |-> <<>>, a |-> 0, b |-> 0, c |-> 0]
Date(y, m, d) == [t |-> "date", s |-> <<>>, a |-> y, b |-> m, c |-> d]
Num(mant, places) == [t |-> "num", s |-> <<>>, a |-> mant, b |-> places, c |-> 0]

DigitChars == <<"0", "1", "2", "3", "4", "5", "6", "7", "8", "9">>
IsDigit(ch) == \E i \in 1..Len(DigitChars) : DigitChars[i] = ch
DigitVal(ch) == (CHOOSE i \in 1..Len(DigitChars) : DigitChars[i] = ch) - 1
AllDigits(s) == \A i \in 1..Len(s) : IsDigit(s[i])

RECURSIVE NatOf(_)
NatOf(s) == IF s = <<>> THEN 0
            ELSE 10 * NatOf(SubSeq(s, 1, Len(s) - 1)) + DigitVal(s[Len(s)])

(***************************************************************************)
(* pd.to_datetime(..., format='%d/%m/%Y'): one value.                      *)
(***************************************************************************)
IsLeap(y) == (y % 4 = 0 /\ y % 100 # 0) \/ y % 400 = 0
DaysInMonth(y, m) == IF m = 2 THEN (IF IsLeap(y) THEN 29 ELSE 28)
                     ELSE IF m \in {4, 6, 9, 11} THEN 30 ELSE 31

\* the date a text holds under %d/%m/%Y (one or two digits for day and month,
\* four for the year, the whole text matched), Null when it does not match;
\* the years of the texts used here are all within the range of a Timestamp
Strptime(s) ==
    LET slashes == {i \in 1..Len(s) : s[i] = "/"}
    IN  IF Cardinality(slashes) # 2 THEN Null
        ELSE LET p1 == CHOOSE i \in slashes : \A j \in slashes : i <= j
                 p2 == CHOOSE i \in slashes : \A j \in slashes : j <= i
                 dd == SubSeq(s, 1, p1 - 1)
                 mm == SubSeq(s, p1 + 1, p2 - 1)
                 yy == SubSeq(s, p2 + 1, Len(s))
             IN  IF /\ Len(dd) \in {1, 2} /\ AllDigits(dd)
                    /\ Len(mm) \in {1, 2} /\ AllDigits(mm)
                    /\ Len(yy) = 4 /\ AllDigits(yy)
                    /\ NatOf(yy) >= 1
                    /\ NatOf(mm) \in 1..12
                    /\ NatOf(dd) \in 1..DaysInMonth(NatOf(yy), NatOf(mm))
                 THEN Date(NatOf(yy), NatOf(mm), NatOf(dd))
                 ELSE Null

\* the texts pandas reads as "no date" whatever the format
NatStrings == {<<"N", "a", "T">>, <<"n", "a", "t">>, <<"N", "A", "T">>,
               <<"n", "a", "n">>, <<"N", "a", "N">>, <<"N", "A", "N">>}

\* a missing value, an empty text and a NaT text are no date and no error
IsBlank(v) == v.t = "nan" \/ (v.t = "str" /\ (v.s = <<>> \/ v.s \in NatStrings))

\* the value makes the conversion raise under errors='raise'
DateMismatch(v) == v.t = "str" /\ ~IsBlank(v) /\ Strptime(v.s) = Null

\* the converted value when the conversion does not raise, and under
\* errors='coerce' in every case
ParseDate(v) == IF v.t = "str" /\ ~IsBlank(v) THEN Strptime(v.s)
                ELSE IF v.t = "date" THEN v ELSE Null

(***************************************************************************)
(* pd.to_numeric(..., errors='coerce') of a text over digits, '.', ',',    *)
(* '%' and letters: digits with at most one '.', and at least one digit.   *)
(***************************************************************************)
RECURSIVE Normalize(_, _)
Normalize(mant, places) ==
    IF places > 0 /\ mant % 10 = 0 THEN Normalize(mant \div 10, places - 1)
    ELSE Num(mant, places)

ToNumeric(s) ==
    LET dots == {i \in 1..Len(s) : s[i] = "."}
        rest == {i \in 1..Len(s) : s[i] # "." /\ ~IsDigit(s[i])}
    IN  IF rest # {} \/ Cardinality(dots) > 1 \/ Len(s) = Cardinality(dots)
        THEN Null
        ELSE IF dots = {} THEN Num(NatOf(s), 0)
        ELSE LET p == CHOOSE i \in dots : TRUE
             IN  Normalize(NatOf(SubSeq(s, 1, p - 1) \o SubSeq(s, p + 1, Len(s))),
                           Len(s) - p)

\* Series.astype(str): a missing value becomes the text "nan"
AsTypeStr(v) == IF v.t = "nan" THEN Str(<<"n", "a", "n">>) ELSE v

NotPercent(ch) == ch # "%"
\* the mutant of StrReplacePercent: only one trailing '%' is removed
StripTrailingPercent(s) ==
    IF s # <<>> /\ s[Len(s)] = "%" THEN SubSeq(s, 1, Len(s) - 1) ELSE s
\* Series.str.replace('%', '', regex=False): every '%' is removed
StrReplacePercent(s) == SelectSeq(s, NotPercent)

(***************************************************************************)
(* transform_data                                                          *)
(***************************************************************************)
\* df.rename(columns=column_mapping)
RenameColumns(df) ==
    [i \in 1..Len(df) |->
        [resolucion_id       |-> df[i].RESOLUCION,
         fecha_resolucion    |-> df[i].FECHA_RESOLUCION,
         vigencia_desde      |-> df[i].VIGENCIA_DESDE,
         vigencia_hasta      |-> df[i].VIGENCIA_HASTA,
         tasa_interes_ea     |-> df[i].INTERES_BANCARIO_CORRIENTE,
         tipo_credito_nombre |-> df[i].MODALIDAD]]

\* the mutant of ConvertFechaResolucion: errors='coerce', row by row
ConvertFechaCoerce(df) ==
    [i \in 1..Len(df) |->
        [df[i] EXCEPT !.fecha_resolucion = ParseDate(df[i].fecha_resolucion)]]
\* the try block of fecha_resolucion: the conversion raises when any value
\* mismatches, and the except clause leaves the column as it was
ConvertFechaResolucion(df) ==
    IF \E i \in 1..Len(df) : DateMismatch(df[i].fecha_resolucion)
    THEN df
    ELSE [i \in 1..Len(df) |->
            [df[i] EXCEPT !.fecha_resolucion = ParseDate(df[i].fecha_resolucion)]]

\* the mutant of ConvertVigencia: strict, the column given up on a mismatch
ConvertVigenciaStrict(df, col) ==
    IF \E i \in 1..Len(df) : DateMismatch(df[i][col])
    THEN df
    ELSE [i \in 1..Len(df) |-> [df[i] EXCEPT ![col] = ParseDate(df[i][col])]]
\* the try blocks of vigencia_desde and vigencia_hasta: errors='coerce'
ConvertVigencia(df, col) ==
    [i \in 1..Len(df) |-> [df[i] EXCEPT ![col] = ParseDate(df[i][col])]]

\* the try block of tasa_interes_ea
ConvertTasa(df) ==
    [i \in 1..Len(df) |->
        [df[i] EXCEPT !.tasa_interes_ea =
            ToNumeric(StrReplacePercent(AsTypeStr(df[i].tasa_interes_ea).s))]]

HasNull(row) == \E f \in DOMAIN row : row[f] = Null
\* the mutant of transform_data: rows with a null are dropped
TransformDropNa(df) ==
    IF df = <<>> THEN <<>>
    ELSE SelectSeq(ConvertTasa(ConvertVigencia(ConvertVigencia(
             ConvertFechaResolucion(RenameColumns(df)),
             "vigencia_desde"), "vigencia_hasta")), LAMBDA r : ~HasNull(r))
\* the empty test, the renaming and the four conversions, in the order of
\* the code; the count of nulls that follows only prints
transform_data(df) ==
    IF df = <<>> THEN <<>>
    ELSE ConvertTasa(ConvertVigencia(ConvertVigencia(
             ConvertFechaResolucion(RenameColumns(df)),
             "vigencia_desde"), "vigencia_hasta"))

(***************************************************************************)
(* Inputs.                                                                 *)
(***************************************************************************)
Valid1 == Str(<<"2", "2", "/", "1", "2", "/", "2", "0", "1", "4">>)
Valid2 == Str(<<"1", "/", "2", "/", "2", "0", "1", "6">>)
IsoText == Str(<<"2", "0", "1", "4", "-", "1", "2", "-", "2", "2">>)
NoSuchDay == Str(<<"3", "1", "/", "0", "2", "/", "2", "0", "1", "5">>)
Empty == Str(<<>>)
NanText == Str(<<"N", "a", "N">>)
RateDot == Str(<<"1", "2", ".", "5", "%">>)
RateComma == Str(<<"1", "2", ",", "5", "%">>)

RawRow(f, d, h, r) ==
    [RESOLUCION |-> Str(<<"R">>), FECHA_RESOLUCION |-> f, VIGENCIA_DESDE |-> d,
     VIGENCIA_HASTA |-> h, INTERES_BANCARIO_CORRIENTE |-> r,
     MODALIDAD |-> Str(<<"M">>)]

\* the date columns of the rows handed to transform_data on its own
FechaPool == {Valid1, IsoText, Null, Empty}
VigenciaPool == {<<Valid2, Valid1>>, <<NoSuchDay, Valid1>>, <<Valid2, Empty>>}
RowPool == {RawRow(f, v[1], v[2], RateDot) : f \in FechaPool, v \in VigenciaPool}
\* the characters of the rate texts handed to transform_data on its own
RateAlphabet == {"1", "2", "5", ".", ",", "%"}
RateRow(r) == RawRow(Valid1, Valid2, Valid1, r)

(***************************************************************************)
(* The state before a run, and the exception classes.                      *)
(***************************************************************************)
NoHttp == [transport |-> "none", status |-> 0, body |-> "none", table |-> <<>>]
NoDb == [file |-> FALSE, table |-> FALSE, rows |-> <<>>]

\* the exception classes of the two scripts, each with its base class
BaseClass ==
    [ConnectionError  |-> "RequestException", HTTPError |-> "RequestException",
     RequestException |-> "OSError",          OSError   |-> "Exception",
     EmptyDataError   |-> "ValueError",       ParserError |-> "ValueError",
     ValueError       |-> "Exception",        DatabaseError |-> "OSError",
     OperationalError |-> "SqliteError",      SqliteError |-> "Exception",
     Exception        |-> "BaseException",    SystemExit |-> "BaseException",
     BaseException    |-> "BaseException"]
RECURSIVE IsSubclass(_, _)
IsSubclass(e, class) ==
    e = class \/ (BaseClass[e] # e /\ IsSubclass(BaseClass[e], class))
\* an except clause of `handlers` catches e
Caught(handlers, e) == \E h \in handlers : IsSubclass(e, h)

(***************************************************************************)
(* extract_data                                                            *)
(***************************************************************************)
\* the statuses a response may carry
Statuses == {200, 300, 404, 500}
\* response.raise_for_status(): an exception for HTTP errors (4xx or 5xx)
RaisesForStatus(status) == 400 <= status /\ status < 600

\* the try block: the exception it raises, or "none"
ExtractRaises(resp) ==
    IF resp.transport = "failed" THEN "ConnectionError"
    ELSE IF RaisesForStatus(resp.status) THEN "HTTPError"
    ELSE IF resp.body = "empty" THEN "EmptyDataError"
    ELSE IF resp.body = "unparseable" THEN "ParserError"
    ELSE "none"

\* the mutant of ExtractHandlers: no catch-all clause
ExtractHandlersNarrow == {"RequestException", "EmptyDataError"}
\* the except clauses of extract_data
ExtractHandlers == {"RequestException", "EmptyDataError", "Exception"}

\* what the call returns (df) or lets through (raised)
extract_data(resp) ==
    LET e == ExtractRaises(resp)
    IN  IF e = "none" THEN [df |-> resp.table, raised |-> "none"]
        ELSE IF Caught(ExtractHandlers, e) THEN [df |-> <<>>, raised |-> "none"]
        ELSE [df |-> <<>>, raised |-> e]

\* the rows a CSV body parses to in a run of the scripts (an empty field is
\* read as NaN)
BodyRowPool == {RawRow(Valid1, Valid2, Valid1, RateDot),
                RawRow(IsoText, Valid2, Null, RateDot),
                RawRow(Null, NoSuchDay, Valid1, RateComma)}
\* the responses to the GET
Responses ==
    {[transport |-> "failed", status |-> 0, body |-> "none", table |-> <<>>]}
    \cup {[transport |-> "ok", status |-> s, body |-> b, table |-> <<>>] :
             s \in Statuses, b \in {"empty", "unparseable"}}
    \cup UNION {{[transport |-> "ok", status |-> s, body |-> "csv", table |-> tb] :
                    s \in Statuses, tb \in [1..n -> BodyRowPool]} : n \in 0..MaxBodyRows}

(***************************************************************************)
(* load_data                                                               *)
(***************************************************************************)
RECURSIVE Digits(_, _)
\* n written with `width` digits
Digits(n, width) ==
    IF width = 0 THEN <<>>
    ELSE Append(Digits(n \div 10, width - 1), DigitChars[(n % 10) + 1])

\* a cell as SQLite stores it: a date as the text YYYY-MM-DD HH:MM:SS, a
\* missing value as NULL, a number and a text as they are
SqlCell(v) ==
    IF v.t = "date"
    THEN Str(Digits(v.a, 4) \o <<"-">> \o Digits(v.b, 2) \o <<"-">> \o Digits(v.c, 2)
             \o <<" ", "0", "0", ":", "0", "0", ":", "0", "0">>)
    ELSE v
SqlRows(df) == [i \in 1..Len(df) |-> [f \in DOMAIN df[i] |-> SqlCell(df[i][f])]]

\* the mutant of to_sql: if_exists='append'
ToSqlAppend(before, df) == before \o SqlRows(df)
\* df.to_sql(table_name, conn, if_exists='replace', index=False): the rows of
\* the table after the call, given the rows before it
to_sql(before, df) == SqlRows(df)

\* the mutant of LoadHandlers: only sqlite3.Error is caught
LoadHandlersNarrow == {"SqliteError"}
\* the except clauses of load_data
LoadHandlers == {"SqliteError", "Exception"}

(***************************************************************************)
(* The process that runs etl_tibc.py, step by step.                        *)
(***************************************************************************)
Fresh ==
    /\ http' = NoHttp
    /\ df_raw' = <<>>
    /\ df_transformed' = <<>>
    /\ conn' = "none"
    /\ calls' = <<>>
    /\ opened' = 0
    /\ escaped' = "none"
    /\ exitCode' = -1
    /\ vdf' = <<>>
    /\ charts' = {}
    /\ wrote' = "none"

\* python etl_tibc.py
EtlStart ==
    /\ pc = "idle"
    /\ script' = "etl"
    /\ pc' = "extract"
    /\ Fresh
    /\ UNCHANGED db

\* the mutant of AfterExtract: the test of df_raw.empty is dropped
AfterExtractNoTest(df) == "transform"
\* if not df_raw.empty: ... else: ...
AfterExtract(df) == IF df # <<>> THEN "transform" ELSE "end"

\* df_raw = extract_data(csv_url), and the test that follows it
ExtractStep ==
    /\ pc = "extract"
    /\ \E resp \in Responses :
          LET r == extract_data(resp)
          IN  /\ http' = resp
              /\ df_raw' = r.df
              /\ escaped' = r.raised
              /\ pc' = IF r.raised # "none" THEN "exited" ELSE AfterExtract(r.df)
              /\ exitCode' = IF r.raised # "none" THEN 1 ELSE exitCode
    /\ calls' = Append(calls, "extract")
    /\ UNCHANGED <<script, df_transformed, conn, db, opened, vdf, charts, wrote>>

\* df_transformed = transform_data(df_raw), and the test that follows it
TransformStep ==
    /\ pc = "transform"
    /\ df_transformed' = transform_data(df_raw)
    /\ calls' = Append(calls, "transform")
    /\ pc' = IF df_transformed' # <<>> THEN "load" ELSE "end"
    /\ UNCHANGED <<script, http, df_raw, conn, db, opened, escaped, exitCode,
                   vdf, charts, wrote>>

\* load_data(df_transformed, ...) up to sqlite3.connect(db_name)
LoadConnect ==
    /\ pc = "load"
    /\ calls' = Append(calls, "load")
    /\ IF df_transformed = <<>>
       THEN /\ pc' = "loaded"
            /\ UNCHANGED <<conn, db, opened, escaped>>
       ELSE \/ /\ conn' = "open"
               /\ opened' = opened + 1
               /\ db' = [db EXCEPT !.file = TRUE]
               /\ pc' = "write"
               /\ UNCHANGED escaped
            \/ /\ escaped' = IF Caught(LoadHandlers, "OperationalError")
                             THEN "none" ELSE "OperationalError"
               /\ pc' = "finally"
               /\ UNCHANGED <<conn, db, opened>>
    /\ UNCHANGED <<script, http, df_raw, df_transformed, exitCode, vdf, charts, wrote>>

\* df.to_sql(...): it writes the table, or fails with the table as it was,
\* dropped, or created and empty
LoadWrite ==
    /\ pc = "write"
    /\ \/ /\ db' = [db EXCEPT !.table = TRUE, !.rows = to_sql(db.rows, df_transformed)]
          /\ wrote' = IF db.rows = <<>> THEN "created"
                      ELSE IF db.rows = SqlRows(df_transformed) THEN "rewrote"
                      ELSE "replaced"
          /\ UNCHANGED escaped
       \/ /\ \E after \in {db, [db EXCEPT !.table = FALSE, !.rows = <<>>],
                              [db EXCEPT !.table = TRUE, !.rows = <<>>]} : db' = after
          /\ wrote' = "failed"
          /\ \E e \in {"OperationalError", "ValueError"} :
                escaped' = IF Caught(LoadHandlers, e) THEN "none" ELSE e
    /\ pc' = "finally"
    /\ UNCHANGED <<script, http, df_raw, df_transformed, conn, calls, opened,
                   exitCode, vdf, charts>>

\* the finally clause, and the return to __main__ (or the exception's way out)
LoadFinally ==
    /\ pc = "finally"
    /\ conn' = IF conn = "open" THEN "closed" ELSE conn
    /\ pc' = IF escaped = "none" THEN "loaded" ELSE "exited"
    /\ exitCode' = IF escaped = "none" THEN exitCode ELSE 1
    /\ UNCHANGED <<script, http, df_raw, df_transformed, db, calls, opened,
                   escaped, vdf, charts, wrote>>

\* the last prints of __main__: the script ends
EtlEnd ==
    /\ pc \in {"loaded", "end"}
    /\ pc' = "exited"
    /\ exitCode' = 0
    /\ UNCHANGED <<script, http, df_raw, df_transformed, conn, db, calls, opened,
                   escaped, vdf, charts, wrote>>

\* the process is gone; the database file stays
ProcessGone ==
    /\ pc = "exited"
    /\ pc' = "idle"
    /\ script' = "none"
    /\ Fresh
    /\ UNCHANGED db

(***************************************************************************)
(* The process that runs visualizacion_tibc.py, step by step.              *)
(***************************************************************************)
\* the mutant of VisHandlers: a clause that catches everything
VisHandlersBare == {"SqliteError", "EmptyDataError", "BaseException"}
\* the except clauses of the script
VisHandlers == {"SqliteError", "EmptyDataError", "Exception"}

\* the exit status when e is raised in the try block (SystemExit carrying
\* `code`): every except clause ends in sys.exit(1)
VisExitCode(e, code) ==
    IF Caught(VisHandlers, e) THEN 1
    ELSE IF e = "SystemExit" THEN code
    ELSE 1

ChartFiles == <<"tasa_interes_historial.png",
                "tasa_interes_distribucion_tipo_credito.png",
                "top_5_tasas_altas.png">>

\* python visualizacion_tibc.py, up to the test of os.path.exists(db_path)
VisStart ==
    /\ pc = "idle"
    /\ script' = "vis"
    /\ Fresh
    /\ UNCHANGED db
    /\ IF ~db.file
       THEN pc' = "exited" /\ exitCode' = 1
       ELSE pc' = "v_connect"

\* sqlite3.connect(db_path)
VisConnect ==
    /\ pc = "v_connect"
    /\ \/ /\ conn' = "open"
          /\ opened' = opened + 1
          /\ pc' = "v_read"
          /\ UNCHANGED exitCode
       \/ /\ pc' = "exited"
          /\ exitCode' = VisExitCode("OperationalError", 0)
          /\ UNCHANGED <<conn, opened>>
    /\ UNCHANGED <<script, http, df_raw, df_transformed, db, calls, escaped,
                   vdf, charts, wrote>>

\* pd.read_sql_query(...), conn.close() and the test of df.empty: the query
\* raises when the table is missing, and may raise when it is there
VisRead ==
    /\ pc = "v_read"
    /\ \/ /\ db.table
          /\ vdf' = db.rows
          /\ conn' = "closed"
          /\ IF db.rows = <<>>
             THEN pc' = "exited" /\ exitCode' = VisExitCode("SystemExit", 0)
             ELSE pc' = "v_clean" /\ UNCHANGED exitCode
       \/ /\ pc' = "exited"
          /\ exitCode' = VisExitCode("DatabaseError", 0)
          /\ UNCHANGED <<conn, vdf>>
    /\ UNCHANGED <<script, http, df_raw, df_transformed, db, calls, opened,
                   escaped, charts, wrote>>

\* the text is a timestamp as SqlCell writes it
IsSqlTimestamp(v) ==
    /\ v.t = "str"
    /\ Len(v.s) = 19
    /\ \A i \in 1..19 :
          IF i \in {5, 8} THEN v.s[i] = "-"
          ELSE IF i = 11 THEN v.s[i] = " "
          ELSE IF i \in {14, 17} THEN v.s[i] = ":"
          ELSE IsDigit(v.s[i])
\* pd.to_datetime(..., errors='coerce') of a stored timestamp
FromSqlTimestamp(v) ==
    Date(NatOf(SubSeq(v.s, 1, 4)), NatOf(SubSeq(v.s, 6, 7)), NatOf(SubSeq(v.s, 9, 10)))

RECURSIVE Pick(_, _, _)
\* the rows of df whose index is in keep, in order, from row i on
Pick(df, keep, i) ==
    IF i > Len(df) THEN <<>>
    ELSE IF i \in keep THEN <<df[i]>> \o Pick(df, keep, i + 1)
    ELSE Pick(df, keep, i + 1)

\* the type conversions, df.dropna(subset=[fecha_resolucion, tasa_interes_ea])
\* and the test of df.empty. A column of stored timestamps converts in every
\* row; how a column still in its source text converts depends on the texts,
\* so any of its rows may become NaT and be dropped
VisClean ==
    /\ pc = "v_clean"
    /\ LET n == Len(vdf)
           sure == {i \in 1..n : vdf[i].fecha_resolucion # Null
                                 /\ vdf[i].tasa_interes_ea # Null}
           stamps == \A i \in 1..n : vdf[i].fecha_resolucion # Null
                                     => IsSqlTimestamp(vdf[i].fecha_resolucion)
           conv(r) == IF IsSqlTimestamp(r.fecha_resolucion)
                      THEN [r EXCEPT !.fecha_resolucion = FromSqlTimestamp(@)]
                      ELSE r
       IN  \E keep \in SUBSET sure :
              /\ stamps => keep = sure
              /\ vdf' = Pick([i \in 1..n |-> conv(vdf[i])], keep, 1)
              /\ IF keep = {}
                 THEN pc' = "exited" /\ exitCode' = VisExitCode("SystemExit", 0)
                 ELSE pc' = "v_render" /\ UNCHANGED exitCode
    /\ UNCHANGED <<script, http, df_raw, df_transformed, conn, db, calls, opened,
                   escaped, charts, wrote>>

\* the three charts, in order: one of them fails, or all are saved and the
\* script runs to its end
VisRender ==
    /\ pc = "v_render"
    /\ \E k \in 0..Len(ChartFiles) :
          /\ charts' = {ChartFiles[i] : i \in 1..k}
          /\ exitCode' = IF k < Len(ChartFiles) THEN VisExitCode("ValueError", 0) ELSE 0
    /\ pc' = "exited"
    /\ UNCHANGED <<script, http, df_raw, df_transformed, conn, db, calls, opened,
                   escaped, vdf, wrote>>

(***************************************************************************)
(* The two scripts, run one process after another on one database file.    *)
(***************************************************************************)
Init ==
    /\ script = "none"
    /\ pc = "idle"
    /\ http = NoHttp
    /\ df_raw = <<>>
    /\ df_transformed = <<>>
    /\ conn = "none"
    /\ db = NoDb
    /\ calls = <<>>
    /\ opened = 0
    /\ escaped = "none"
    /\ exitCode = -1
    /\ vdf = <<>>
    /\ charts = {}
    /\ wrote = "none"

Next ==
    \/ EtlStart
    \/ ExtractStep
    \/ TransformStep
    \/ LoadConnect
    \/ LoadWrite
    \/ LoadFinally
    \/ EtlEnd
    \/ VisStart
    \/ VisConnect
    \/ VisRead
    \/ VisClean
    \/ VisRender
    \/ ProcessGone

Spec == Init /\ [][Next]_vars

(***************************************************************************)
(* transform_data on its own.                                              *)
(***************************************************************************)
InitTransform ==
    /\ script = "etl"
    /\ pc = "input"
    /\ df_raw = <<>>
    /\ http = NoHttp
    /\ df_transformed = <<>>
    /\ conn = "none"
    /\ db = NoDb
    /\ calls = <<>>
    /\ opened = 0
    /\ escaped = "none"
    /\ exitCode = -1
    /\ vdf = <<>>
    /\ charts = {}
    /\ wrote = "none"

\* the table transform_data is called with: up to MaxRows rows of RowPool;
\* one row whose rate is missing, "12.5%" or "12,5%"; two rows, the first with
\* the text "NaN" for its date; or one row whose rate is any text of up to
\* MaxLen characters of RateAlphabet
PickInput ==
    /\ pc = "input"
    /\ \/ \E n \in 0..MaxRows : df_raw' \in [1..n -> RowPool]
       \/ \E r \in {Null, RateDot, RateComma} : df_raw' = <<RateRow(r)>>
       \/ \E f \in FechaPool \cup {NanText} :
              df_raw' = <<RawRow(NanText, Valid2, Valid1, RateDot),
                          RawRow(f, Valid2, Valid1, RateDot)>>
       \/ \E n \in 0..MaxLen : \E s \in [1..n -> RateAlphabet] :
              df_raw' = <<RateRow(Str(s))>>
    /\ pc' = "transform"
    /\ UNCHANGED <<script, http, df_transformed, conn, db, calls, opened, escaped,
                   exitCode, vdf, charts, wrote>>

NextTransform == PickInput \/ TransformStep
SpecTransform == InitTransform /\ [][NextTransform]_vars

(***************************************************************************)
(* Properties of transform_data.                                           *)
(***************************************************************************)
TransformReturned == calls # <<>> /\ calls[Len(calls)] = "transform"
Rows == 1..Len(df_raw)
\* the text is a date written DD/MM/YYYY
Matches(v) == v.t = "str" /\ Strptime(v.s) # Null
\* the value is missing: NaN, the empty text, or a text pandas reads as NaN/NaT
Missing(v) == v.t = "nan" \/ (v.t = "str" /\ (Len(v.s) = 0 \/ v.s \in NatStrings))
IsDate(v) == v.t = "date"
IsNum(v) == v.t = "num"

\* C3 as stated: the row count is kept, and every field that does not parse
\* (fecha_resolucion included) is null in the output
C3_AsStated ==
    (TransformReturned /\ df_raw # <<>>) =>
        /\ Len(df_transformed) = Len(df_raw)
        /\ \A i \in Rows :
            /\ ~Matches(df_raw[i].FECHA_RESOLUCION)
                  => df_transformed[i].fecha_resolucion = Null
            /\ ~Matches(df_raw[i].VIGENCIA_DESDE)
                  => df_transformed[i].vigencia_desde = Null
            /\ ~Matches(df_raw[i].VIGENCIA_HASTA)
                  => df_transformed[i].vigencia_hasta = Null
            /\ ~IsNum(df_transformed[i].tasa_interes_ea)
                  => df_transformed[i].tasa_interes_ea = Null

\* C3 amended: for every non-empty input the output has the same number of
\* rows, row i of the output being row i of the input (its pass-through
\* fields unchanged); a vigencia_desde, vigencia_hasta or tasa_interes_ea that
\* does not parse is null, and a fecha_resolucion that does not parse is null
\* or still the original text
C3_RowCountKept ==
    (TransformReturned /\ df_raw # <<>>) =>
        /\ Len(df_transformed) = Len(df_raw)
        /\ \A i \in Rows :
            /\ df_transformed[i].resolucion_id = df_raw[i].RESOLUCION
            /\ df_transformed[i].tipo_credito_nombre = df_raw[i].MODALIDAD
            /\ ~Matches(df_raw[i].FECHA_RESOLUCION)
                  => df_transformed[i].fecha_resolucion
                        \in {Null, df_raw[i].FECHA_RESOLUCION}
            /\ ~Matches(df_raw[i].VIGENCIA_DESDE)
                  => df_transformed[i].vigencia_desde = Null
            /\ ~Matches(df_raw[i].VIGENCIA_HASTA)
                  => df_transformed[i].vigencia_hasta = Null
            /\ ~IsNum(df_transformed[i].tasa_interes_ea)
                  => df_transformed[i].tasa_interes_ea = Null

\* C3 witness: a table of MaxRows rows, with an unparseable fecha_resolucion in one row and
\* an unparseable vigencia_desde in another, came back whole
C3_Witness ==
    /\ TransformReturned
    /\ Len(df_raw) = MaxRows
    /\ Len(df_transformed) = MaxRows
    /\ \E i, j \in Rows :
          /\ i # j
          /\ df_raw[i].FECHA_RESOLUCION = IsoText
          /\ df_raw[j].VIGENCIA_DESDE = NoSuchDay
          /\ df_transformed[j].vigencia_desde = Null

\* C7 as stated: all values match => all rows hold a date; any value that does
\* not match (missing or empty included) => the column is unchanged
C7_AsStated ==
    (TransformReturned /\ df_raw # <<>>) =>
        /\ (\A i \in Rows : Matches(df_raw[i].FECHA_RESOLUCION))
              => \A i \in Rows : IsDate(df_transformed[i].fecha_resolucion)
        /\ (\E i \in Rows : ~Matches(df_raw[i].FECHA_RESOLUCION))
              => \A i \in Rows : df_transformed[i].fecha_resolucion
                                    = df_raw[i].FECHA_RESOLUCION

\* C7 amended: all values match => every row holds the date its text spells;
\* some value is a text that is not missing and does not match => the column
\* is unchanged in every row; otherwise (the only values that do not match
\* are missing ones) the missing values are null and every other row holds
\* its date
C7_FechaAllOrNothing ==
    (TransformReturned /\ df_raw # <<>>) =>
        LET in(i) == df_raw[i].FECHA_RESOLUCION
            out(i) == df_transformed[i].fecha_resolucion
            bad(i) == ~Matches(in(i)) /\ ~Missing(in(i))
        IN  /\ (\A i \in Rows : Matches(in(i)))
               => \A i \in Rows : IsDate(out(i))
            /\ (\E i \in Rows : bad(i))
               => \A i \in Rows : out(i) = in(i)
            /\ (\A i \in Rows : ~bad(i))
               => \A i \in Rows :
                     /\ Missing(in(i)) => out(i) = Null
                     /\ Matches(in(i)) => out(i) = Strptime(in(i).s)

\* C7 witness: a column with a matching date and a mismatching text was left as text
C7_Witness ==
    /\ TransformReturned
    /\ \E i, j \in Rows :
          /\ df_raw[i].FECHA_RESOLUCION = Valid1
          /\ df_raw[j].FECHA_RESOLUCION = IsoText
          /\ df_transformed[i].fecha_resolucion = Valid1
          /\ df_transformed[j].fecha_resolucion = IsoText

\* C8: in vigencia_desde and vigencia_hasta a value that does not parse (the
\* empty text included) is null in its row, and every value that parses is the
\* date its text spells, whatever the other rows hold
C8_VigenciaPerRow ==
    (TransformReturned /\ df_raw # <<>>) =>
        /\ Len(df_transformed) = Len(df_raw)
        /\ \A i \in Rows :
            /\ df_transformed[i].vigencia_desde =
                  (IF Matches(df_raw[i].VIGENCIA_DESDE)
                   THEN Strptime(df_raw[i].VIGENCIA_DESDE.s) ELSE Null)
            /\ df_transformed[i].vigencia_hasta =
                  (IF Matches(df_raw[i].VIGENCIA_HASTA)
                   THEN Strptime(df_raw[i].VIGENCIA_HASTA.s) ELSE Null)

\* C8 witness: three rows, one with an empty VIGENCIA_HASTA: three rows out, that row's
\* vigencia_hasta null and the other two dates
C8_Witness ==
    /\ TransformReturned
    /\ Len(df_raw) = 3
    /\ Len(df_transformed) = 3
    /\ df_raw[2].VIGENCIA_HASTA = Empty
    /\ df_raw[1].VIGENCIA_HASTA = Valid1
    /\ df_raw[3].VIGENCIA_HASTA = Valid1
    /\ df_transformed[2].vigencia_hasta = Null
    /\ df_transformed[1].vigencia_hasta = Date(2014, 12, 22)
    /\ df_transformed[3].vigencia_hasta = Date(2014, 12, 22)

\* what C9 says a rate text gives: one trailing '%' removed, the rest read as
\* a decimal number written with '.' or ',', null when it is no number
ClaimedRate(s) ==
    LET rest == IF s # <<>> /\ s[Len(s)] = "%" THEN SubSeq(s, 1, Len(s) - 1) ELSE s
        seps == {i \in 1..Len(rest) : rest[i] \in {".", ","}}
        digits == {i \in 1..Len(rest) : IsDigit(rest[i])}
    IN  IF /\ seps \cup digits = 1..Len(rest)
           /\ Cardinality(seps) <= 1
           /\ digits # {}
        THEN LET p == IF seps = {} THEN Len(rest) ELSE CHOOSE i \in seps : TRUE
             IN  Normalize(NatOf(SelectSeq(rest, IsDigit)), Len(rest) - p)
        ELSE Null

\* C9 as stated
C9_AsStated ==
    (TransformReturned /\ df_raw # <<>>) =>
        \A i \in Rows :
            df_raw[i].INTERES_BANCARIO_CORRIENTE.t = "str"
            => df_transformed[i].tasa_interes_ea
                  = ClaimedRate(df_raw[i].INTERES_BANCARIO_CORRIENTE.s)

\* C9 amended: every '%' is removed, wherever it stands; the result is a
\* number exactly when what is left is digits with at most one '.' and at
\* least one digit, and then its digits are the digits of the text and its
\* decimal places the digits after the '.'; so "12.5%" gives 12.5, "12,5%"
\* gives null and "1%2" gives 12
C9_RateEveryPercentRemoved ==
    (TransformReturned /\ df_raw # <<>>) =>
        \A i \in Rows :
            LET in == df_raw[i].INTERES_BANCARIO_CORRIENTE
                out == df_transformed[i].tasa_interes_ea
                s == in.s
                dots == {k \in 1..Len(s) : s[k] = "."}
                digits == {k \in 1..Len(s) : IsDigit(s[k])}
                pcts == {k \in 1..Len(s) : s[k] = "%"}
                numeric == /\ dots \cup digits \cup pcts = 1..Len(s)
                           /\ Cardinality(dots) <= 1
                           /\ digits # {}
            IN  /\ in.t = "nan" => out = Null
                /\ (in.t = "str" /\ ~numeric) => out = Null
                /\ (in.t = "str" /\ numeric) =>
                      /\ IsNum(out)
                      /\ \E z \in 0..Len(s) :
                            /\ out.b + z =
                                 Cardinality({k \in digits : \E d \in dots : k > d})
                            /\ out.a * (10 ^ z) = NatOf(SelectSeq(s, IsDigit))
                /\ s = <<"1", "2", ".", "5", "%">> => out = Num(125, 1)
                /\ s = <<"1", "2", ",", "5", "%">> => out = Null
                /\ s = <<"1", "%", "2">> => out = Num(12, 0)

\* C9 witness: the rate text "1%2", with a '%' that is not trailing, gave 12
C9_Witness ==
    /\ TransformReturned
    /\ Len(df_raw) = 1
    /\ df_raw[1].INTERES_BANCARIO_CORRIENTE = Str(<<"1", "%", "2">>)
    /\ df_transformed[1].tasa_interes_ea = Num(12, 0)

(***************************************************************************)
(* Properties of the two scripts.                                          *)
(***************************************************************************)
Called(stage) == \E i \in 1..Len(calls) : calls[i] = stage
WriteOk == wrote \in {"created", "rewrote", "replaced"}

\* C1: in a run of the ETL script the stages are called in the order extract,
\* transform, load, each at most once; transform only after a non-empty
\* extraction, load only after a non-empty transformation; and after an empty
\* extraction the process opens no connection
C1_StagesInOrder ==
    /\ calls \in {<<>>, <<"extract">>, <<"extract", "transform">>,
                  <<"extract", "transform", "load">>}
    /\ Called("transform") => df_raw # <<>>
    /\ Called("load") => df_transformed # <<>>
    /\ (Called("extract") /\ df_raw = <<>>) => (opened = 0 /\ conn = "none")

\* C1 witness: a run whose GET was answered with nothing to load ended after extract
\* alone, on a database file an earlier run had created, with no connection
C1_Witness ==
    /\ script = "etl"
    /\ pc = "exited"
    /\ http.transport = "ok"
    /\ calls = <<"extract">>
    /\ db.file
    /\ opened = 0

\* C2 as stated: nothing escapes extract_data; a transport failure, a status
\* outside 2xx, an empty or an unparseable body give an empty table; a
\* non-empty table needs a 2xx status and a body with at least one row
C2_AsStated ==
    Called("extract") =>
        /\ escaped = "none"
        /\ (\/ http.transport = "failed"
            \/ http.status \notin 200..299
            \/ http.body \in {"empty", "unparseable"}) => df_raw = <<>>
        /\ df_raw # <<>> => /\ http.transport = "ok"
                            /\ http.status \in 200..299
                            /\ http.body = "csv"
                            /\ Len(http.table) >= 1

\* C2 amended: nothing escapes extract_data; a transport failure, a 4xx or 5xx
\* status, an empty or an unparseable body give an empty table; a non-empty
\* table is returned only when the request succeeded with a status that is
\* not 4xx or 5xx and the body parsed as CSV with at least one data row, and it
\* is then that parsed table
C2_ExtractNeverRaises ==
    Called("extract") =>
        /\ escaped = "none"
        /\ (\/ http.transport = "failed"
            \/ http.status \in 400..599
            \/ http.body \in {"empty", "unparseable"}) => df_raw = <<>>
        /\ df_raw # <<>> => /\ http.transport = "ok"
                            /\ http.status \notin 400..599
                            /\ http.body = "csv"
                            /\ Len(http.table) >= 1
                            /\ df_raw = http.table

\* C2 witness: a 404 answered with a CSV body of one row or more gave an empty table
C2_Witness ==
    /\ Called("extract")
    /\ http.status = 404
    /\ http.body = "csv"
    /\ Len(http.table) >= 1
    /\ df_raw = <<>>
    /\ escaped = "none"

\* C4: after a successful load the table holds exactly the rows of the loaded
\* table, one stored row per row and in order, whatever it held before: each
\* stored cell is the loaded cell, a date being stored as the timestamp text
\* that reads back as that date
C4_ReplaceSemantics ==
    WriteOk =>
        /\ db.file /\ db.table
        /\ Len(db.rows) = Len(df_transformed)
        /\ \A i \in 1..Len(df_transformed) :
              \A f \in DOMAIN df_transformed[i] :
                 LET cell == df_transformed[i][f]
                     stored == db.rows[i][f]
                 IN  IF cell.t = "date"
                     THEN IsSqlTimestamp(stored) /\ FromSqlTimestamp(stored) = cell
                     ELSE stored = cell

\* C4 witness: a load of a one-row table went through on a table that held other rows
C4_Witness ==
    /\ wrote = "replaced"
    /\ pc = "exited"
    /\ Len(df_transformed) = 1
    /\ Len(db.rows) = 1

\* C5: once load_data is called no exception reaches __main__, whether the
\* connection or the write fails, and the process ends with status 0
C5_LoadSwallowsErrors ==
    (script = "etl" /\ Called("load")) =>
        /\ escaped = "none"
        /\ pc \in {"write", "finally", "loaded", "exited"}
        /\ pc = "exited" => exitCode = 0

\* C5 witness: a run whose write failed ended with status 0
C5_Witness ==
    /\ script = "etl"
    /\ pc = "exited"
    /\ wrote = "failed"
    /\ escaped = "none"
    /\ exitCode = 0

\* C6 as stated: when load_data has returned, and when either process has
\* ended, no connection the process opened is still open
C6_AsStated ==
    pc \in {"loaded", "exited"} => conn # "open"

====
